---- MODULE Spec2Model ----
(***************************************************************************)
(* The Git-PR publishing pipeline of number3ai/pegasus.                    *)
(*                                                                         *)
(* The repository holds several variants of the same pipeline.  The model  *)
(* keeps them apart with two variant selectors fixed at Init:              *)
(*                                                                         *)
(*   resolver  (how the add-on fragments are collected)                    *)
(*     "push"     aws/eks/eks-addons.ts 6-41: import().then(push) into a   *)
(*                module-level array, pulumi.all over that array           *)
(*     "promises" aws/eks/eks-addons/ebs-csi-driver.ts 45-69 and           *)
(*                unnamed/part_006: import().then().catch(=> []),          *)
(*                pulumi.all over Promise.all                              *)
(*     "readdir"  unnamed/part_003: async map without a per-producer       *)
(*                catch, Promise.all(...).then(...).catch(log)             *)
(*     "apply"    unnamed/part_007 393-566 with aws/eks/helm-values.ts:    *)
(*                pulumi.all(arns).apply(() => push...; return files)      *)
(*     "static"   unnamed/part_022 with aws/eks/eks-addons.ts 206-460:     *)
(*                module-level pushes, createGitPR called while the        *)
(*                module loads                                             *)
(*     "direct"   aws/eks/eks-addons/*.ts: every add-on module calls       *)
(*                uploadValueFile itself, from the apply callback of its   *)
(*                role ARN where it has one                                *)
(*                                                                         *)
(*   publisher (which createGitPR is linked)                               *)
(*     "sync"        aws/eks/helpers/git-helpers.ts 69-121                 *)
(*     "noOverwrite" unnamed/part_000 38-65 (no overwriteOnCreate)         *)
(*     "chain"       unnamed/part_017 46-104 (branch.apply -> files ->     *)
(*                   pulumi.all(ids).apply -> pull request)                *)
(*     "upload"      aws/eks/helpers/git.ts 14-35 uploadValueFile: one     *)
(*                   RepositoryFile on branch main, no branch, no pull     *)
(*                   request; it is the publisher of "direct"              *)
(*                                                                         *)
(* Pulumi semantics the code relies on: pulumi.all/output copy an array    *)
(* argument when they are called; an apply callback runs after its Output  *)
(* resolved and never if it failed; the engine creates registered          *)
(* resources concurrently unless one depends on an Output of another.      *)
(***************************************************************************)
EXTENDS Integers, Sequences, FiniteSets, TLC

\* ---------------------------------------------------------------- bounds
MaxAddons == 2      \* how many entries of the add-on list are deployed
MaxRuns == 2        \* pipeline runs against the same Git host
MaxFaults == 1      \* transport failures the Git host may inject
MaxSegments == 2    \* "/"-separated segments of a fragment name a caller passes
MaxKeys == 2        \* keys of a document a caller passes
MaxQuantity == 2    \* the largest quantity passed to createRoles
MaxPolicies == 2    \* entries of awsPolicies and of customPolicies

\* ------------------------------------------------------ program constants
environment == "dev"

githubBootloaders == <<"infrastructure", "security">>

addonList ==
  << "amazon-cloudwatch-observability", "aws-load-balancer-controller",
     "ebs-csi-driver", "grafana", "ingress-nginx", "karpenter" >>

\* order of the gitPrFiles.push calls inside the apply callback
applyPushOrder ==
  << "ebs-csi-driver", "amazon-cloudwatch-observability", "karpenter",
     "ingress-nginx", "aws-load-balancer-controller", "grafana" >>

\* order of the module-level gitPrFilesEksAddons.push calls
staticPushOrder ==
  << "ebs-csi-driver", "aws-load-balancer-controller",
     "amazon-cloudwatch-observability", "ingress-nginx", "karpenter" >>

Resolvers == {"push", "promises", "readdir", "apply", "static", "direct"}
Publishers == {"sync", "noOverwrite", "chain", "upload"}

Addons == {addonList[i] : i \in 1..MaxAddons}

\* the fileName an add-on module puts into its valueFile
FileNameOf(a) == IF a = "ebs-csi-driver" THEN "aws-ebs-csi-driver" ELSE a

\* does the fragment of add-on a embed an Output (role ARN, certificate ARN,
\* VPC id) under resolver r
HasAsyncDep(r, a) ==
  CASE a = "amazon-cloudwatch-observability" -> FALSE
    [] a = "ebs-csi-driver" /\ r = "static" -> FALSE   \* literal "test"
    [] a = "karpenter" /\ r = "static" -> FALSE
    [] OTHER -> TRUE

\* the add-on modules that call uploadValueFile themselves
Uploads(a) ==
  a \in {"amazon-cloudwatch-observability", "aws-load-balancer-controller",
         "grafana", "karpenter"}

\* ------------------------------------------------------------- helpers
RECURSIVE SelectIn(_, _)
SelectIn(s, S) ==
  IF s = <<>> THEN <<>>
  ELSE IF Head(s) \in S THEN <<Head(s)>> \o SelectIn(Tail(s), S)
       ELSE SelectIn(Tail(s), S)

Range(s) == {s[i] : i \in 1..Len(s)}

\* A fragment (GitFileMap).  json is the document as the object literal
\* builds it: its keys in insertion order, each with its value.  The
\* fragments of the pipeline have one top-level key, the chart name; dep
\* stands for the value under it and tells what it holds in the place of the
\* asynchronous value: "none" (no such value), "resolved" (the plain value)
\* or "output" (a pulumi Output object that was never unwrapped).
GitFileMap(name, dep) == [fileName |-> name, json |-> << <<name, dep>> >>]

ArgoFile(key) == GitFileMap("app-of-apps-" \o key, "none")

\* argoCdPrFiles: one push per bootloader key, done while the module loads
argoCdPrFiles == [i \in 1..Len(githubBootloaders) |-> ArgoFile(githubBootloaders[i])]

\* the valueFile of add-on a as the publisher receives it once pulumi.all
\* has unwrapped it
ResolvedValueFile(r, a) ==
  GitFileMap(FileNameOf(a), IF HasAsyncDep(r, a) THEN "resolved" ELSE "none")

\* the object literal pushed at module level or inside an apply callback:
\* the Output objects are stored as they are
RawValueFile(r, a) ==
  GitFileMap(FileNameOf(a), IF HasAsyncDep(r, a) THEN "output" ELSE "none")

\* ------------------------------------------------------------ serializer
\* yaml.dump throws on a document that holds an Output object (its own
\* properties are functions and promises); otherwise it yields the text.
CanDump(json) == \A i \in 1..Len(json) : json[i][2] # "output"

\* yaml.dump(json) with its default options: one entry per key, in the
\* insertion order of the keys (sortKeys is off)
yamlDump(json) == [i \in 1..Len(json) |-> json[i][1] \o ": " \o json[i][2]]

\* jsonToYamlBase64: Buffer.from(yaml.dump(json)).toString("base64")
jsonToYamlBase64(json) == [enc |-> "base64", doc |-> yamlDump(json)]

\* jsonToYaml: Buffer.from(yaml.dump(json)).toString("ascii")
jsonToYaml(json) == [enc |-> "ascii", doc |-> yamlDump(json)]

ContentOf(p, json) ==
  IF p \in {"chain", "upload"} THEN jsonToYaml(json) ELSE jsonToYamlBase64(json)

\* the file path createGitPR builds
FilePath(p, fileName) ==
  IF p \in {"chain", "upload"}
  THEN "releases/" \o environment \o "/" \o fileName \o ".generated.yaml"
  ELSE "/releases/" \o environment \o "/" \o fileName \o ".generated.yaml"

\* overwriteOnCreate of the RepositoryFile resources
OverwriteOnCreate(p) == p # "noOverwrite"

\* the branch the pull requests are opened against
mainBranch == [label |-> "main", nonce |-> -1]

\* the branch name the caller passes to createGitPR
BranchName(r, t) ==
  IF r \in {"apply", "static"}
  THEN [label |-> "automated-devops-pr-", nonce |-> t]
  ELSE [label |-> "automated-devops-dynamic-helm-values", nonce |-> -1]

\* ----------------------------------------------------------------- state
VARIABLES
  resolver,          \* variant of the collecting code
  publisher,         \* variant of createGitPR
  failing,           \* add-on modules whose import() rejects
  run,               \* number of the current pipeline run
  now,               \* Date.now() of the current run
  faults,            \* transport failures injected so far
  hand,              \* "load" | "waiting" | "handed" | "aborted" | "crashed" |
                     \* "direct" (the add-on modules publish themselves)
  imp,               \* per add-on: state of its import() promise
  resolved,          \* add-ons whose asynchronous value has resolved
  eksAddonsPrFiles,  \* the module-level array the producers push into
  snapshot,          \* the copy pulumi.all took of that array
  batch,             \* the files passed to createGitPR
  reported,          \* failures written to the log
  processed,         \* what processGitPrFiles has returned to its callers
  registered,        \* resources registered with the engine
  serialized,        \* calls of the serializer
  calls,             \* Git-host calls issued in this transaction
  branches,          \* Git host: branches that exist
  repo,              \* Git host: files at rest
  prs,               \* Git host: pull requests
  handedLog,         \* what each earlier run handed to the publisher
  args,              \* a direct call of a publisher: the file a caller passes
  results,           \* a direct call of a publisher: what the call has done
  iamArgs,           \* a call of the IAM helpers: the arguments
  iamOut             \* a call of the IAM helpers: what they have created

config == <<resolver, publisher, failing>>
perRun == <<hand, imp, resolved, eksAddonsPrFiles, snapshot, batch, reported,
            processed, registered, serialized, calls>>
host == <<branches, repo, prs>>
history == <<handedLog>>
iam == <<iamArgs, iamOut>>
unit == <<args, results, iam>>
vars == <<config, run, now, faults, perRun, host, history, unit>>

ImportBased(r) == r \in {"push", "promises", "readdir"}

AsyncAddons == {a \in Addons : HasAsyncDep(resolver, a)}

\* the state of the program before its modules are evaluated
FreshRun ==
  /\ hand = "load"
  /\ imp = [a \in Addons |-> "idle"]
  /\ resolved = {}
  /\ eksAddonsPrFiles = <<>>
  /\ snapshot = <<>>
  /\ batch = <<>>
  /\ reported = {}
  /\ processed = {}
  /\ registered = [branch |-> FALSE, files |-> {}, pr |-> FALSE]
  /\ serialized = {}
  /\ calls = {}

\* the resource names of a call that has not been made
NoNames == [branch |-> <<>>, file |-> <<>>, pr |-> <<>>]

\* what a second call of the publisher has done with each of its resources:
\* "none", "duplicate" (the engine refused the resource name), "registered"
\* or "issued" (the engine has sent the request to the Git host)
NoSecond == [branch |-> "none", file |-> "none", pr |-> "none"]

\* no IAM helper has been called
NoIam ==
  /\ iamArgs = [impl |-> "", name |-> "", halves |-> 0, service |-> "",
                awsPolicies |-> <<>>, customPolicies |-> <<>>]
  /\ iamOut = [called |-> {}, roles |-> <<>>, profiles |-> <<>>, irsa |-> <<>>]

\* no direct call of a publisher is under way
NoCall ==
  /\ args = [name |-> <<>>, json |-> <<>>, other |-> <<>>]
  /\ results = [step |-> "idle", path |-> "", content |-> [enc |-> "", doc |-> <<>>],
                again |-> <<>>, names |-> NoNames, second |-> NoSecond]

Init ==
  /\ NoCall
  /\ NoIam
  /\ resolver \in Resolvers
  /\ publisher \in Publishers
  /\ (resolver = "direct") <=> (publisher = "upload")
  /\ failing \in (IF ImportBased(resolver) THEN SUBSET Addons ELSE {{}})
  /\ run = 1
  /\ now = 0
  /\ faults = 0
  /\ FreshRun
  /\ branches = {mainBranch}
  /\ repo = {}
  /\ prs = {}
  /\ handedLog = <<>>

\* ------------------------------------------------------------- publisher
AddonOf(fileName) == CHOOSE a \in Range(addonList) : FileNameOf(a) = fileName

\* has every asynchronous value the content of f depends on resolved
DepsResolved(f) ==
  \/ f.fileName \notin {FileNameOf(a) : a \in AsyncAddons}
  \/ AddonOf(f.fileName) \in resolved

\* the files of the loop up to the first one yaml.dump throws on
RECURSIVE DumpablePrefix(_)
DumpablePrefix(files) ==
  IF files = <<>> \/ ~CanDump(Head(files).json) THEN <<>>
  ELSE <<Head(files)>> \o DumpablePrefix(Tail(files))

\* the files the serializer is called on: the prefix and the one that throws
Attempted(files) ==
  SubSeq(files, 1, IF Len(DumpablePrefix(files)) < Len(files)
                   THEN Len(DumpablePrefix(files)) + 1 ELSE Len(files))

FileResource(f) ==
  [path |-> FilePath(publisher, f.fileName), content |-> ContentOf(publisher, f.json)]

SerializerCall(f) ==
  [fileName |-> f.fileName, ready |-> DepsResolved(f), ok |-> CanDump(f.json)]

\* the loop (or map) over the files: one RepositoryFile per file until the
\* serializer throws
RegisterFiles(files) ==
  /\ registered' = [registered EXCEPT
                      !.files = {FileResource(f) : f \in Range(DumpablePrefix(files))}]
  /\ serialized' = {SerializerCall(f) : f \in Range(Attempted(files))}

\* createGitPR(branchName, files)
createGitPR(files) ==
  /\ batch' = files
  /\ IF publisher = "chain"
     THEN /\ registered' = [registered EXCEPT !.branch = TRUE]
          /\ serialized' = serialized
          /\ hand' = "handed"
     ELSE /\ registered' =
               [branch |-> TRUE,
                files |-> {FileResource(f) : f \in Range(DumpablePrefix(files))},
                pr |-> DumpablePrefix(files) = files]
          /\ serialized' = {SerializerCall(f) : f \in Range(Attempted(files))}
          /\ hand' = IF DumpablePrefix(files) = files THEN "handed" ELSE "crashed"

\* uploadValueFile(file), called by each add-on module of the set: one
\* RepositoryFile resource per call
uploadValueFile(addons) ==
  /\ registered' =
       [registered EXCEPT
          !.files = @ \cup {FileResource(ResolvedValueFile(resolver, a)) : a \in addons}]
  /\ serialized' =
       serialized \cup {SerializerCall(ResolvedValueFile(resolver, a)) : a \in addons}

\* -------------------------------------------------------------- resolver
\* the add-on files a resolver that awaits its producers passes on: one per
\* module that loaded, in the order of the list
LoadedValueFile(a) == ResolvedValueFile(resolver, a)

LoadedFiles ==
  LET loaded == SelectIn(addonList, {a \in Addons : imp[a] = "loaded"})
  IN  [i \in 1..Len(loaded) |-> LoadedValueFile(loaded[i])]

\* pulumi.all replaces every Output inside a value by what it resolved to
Unwrap(f) ==
  [fileName |-> f.fileName,
   json |-> [i \in 1..Len(f.json) |->
               <<f.json[i][1], IF f.json[i][2] = "output" THEN "resolved" ELSE f.json[i][2]>>]]

RawFile(a) == RawValueFile(resolver, a)

\* the pushes of the add-ons in order, as far as they are deployed
Pushes(order) ==
  LET pushed == SelectIn(order, Addons)
  IN  [i \in 1..Len(pushed) |-> RawFile(pushed[i])]

\* pulumi.all applied to a list of files
UnwrapAll(files) == [i \in 1..Len(files) |-> Unwrap(files[i])]

\* pulumi.all([eksAddonsPrFiles, argoCdPrFiles]) called on the module-level
\* array: the array is copied as it is at the call
SnapshotOf(array) == array

\* HandedFiles with the module-level array read when the callback runs
\* instead of the copy taken when pulumi.all was called
HandedFilesLive ==
  CASE resolver = "push" -> argoCdPrFiles \o eksAddonsPrFiles
    [] resolver = "apply" -> argoCdPrFiles \o UnwrapAll(eksAddonsPrFiles)
    [] OTHER -> argoCdPrFiles \o LoadedFiles

\* HandedFiles with argocd and eks-addons pushing into one shared gitPrFiles
\* array that both exports name
HandedFilesShared ==
  CASE resolver = "push" -> argoCdPrFiles \o snapshot
    [] resolver = "apply" -> (argoCdPrFiles \o UnwrapAll(eksAddonsPrFiles))
                             \o (argoCdPrFiles \o UnwrapAll(eksAddonsPrFiles))
    [] OTHER -> argoCdPrFiles \o LoadedFiles

\* the list createGitPR receives from the pulumi.all callback
HandedFiles ==
  CASE resolver = "push" -> argoCdPrFiles \o snapshot
    [] resolver = "apply" -> argoCdPrFiles \o UnwrapAll(eksAddonsPrFiles)
    [] OTHER -> argoCdPrFiles \o LoadedFiles

\* every producer promise has settled and every Output it gave has resolved
AllSettled ==
  \A a \in Addons :
    /\ imp[a] \in {"loaded", "failed"}
    /\ (imp[a] = "loaded" /\ a \in AsyncAddons) => a \in resolved

\* when the callback that calls createGitPR may run
CallbackReady ==
  CASE resolver = "push" -> TRUE
    [] resolver = "promises" -> AllSettled
    [] resolver = "readdir" -> AllSettled /\ \A a \in Addons : imp[a] = "loaded"
    [] resolver = "apply" -> eksAddonsPrFiles # <<>>
    [] OTHER -> FALSE

\* processGitPrFiles(gitPrFiles): pulumi.all(gitPrFiles).apply(...) is built
\* and dropped, and the argument is returned at once
processGitPrFiles(gitPrFiles) == gitPrFiles

\* what a caller of processGitPrFiles holds when the call returns: the files,
\* each with whether an asynchronous value in it has still to resolve; done
\* are the add-ons whose value has resolved by then
Returned(gitPrFiles, done) ==
  {[fileName |-> f.fileName,
    pending |-> f.fileName \in {FileNameOf(a) : a \in AsyncAddons \ done}] :
     f \in Range(processGitPrFiles(gitPrFiles))}

\* Evaluation of the program's modules, up to the first await.
Load ==
  /\ hand = "load"
  /\ imp' = [a \in Addons |-> IF ImportBased(resolver) THEN "pending" ELSE "idle"]
  /\ CASE resolver = "static" ->
            /\ eksAddonsPrFiles' = Pushes(staticPushOrder)
            /\ snapshot' = snapshot
            /\ createGitPR(argoCdPrFiles \o eksAddonsPrFiles')
            /\ processed' = processed
       [] resolver = "direct" ->
            /\ hand' = "direct"
            /\ uploadValueFile({a \in Addons : Uploads(a) /\ ~HasAsyncDep(resolver, a)})
            /\ UNCHANGED <<eksAddonsPrFiles, snapshot, batch, processed>>
       [] OTHER ->
            /\ eksAddonsPrFiles' = <<>>
            /\ snapshot' = SnapshotOf(eksAddonsPrFiles')
            /\ hand' = "waiting"
            /\ processed' = processed \cup Returned(argoCdPrFiles, resolved)
            /\ UNCHANGED <<batch, registered, serialized>>
  /\ UNCHANGED <<unit, config, run, now, faults, resolved, reported, calls, host, history>>

\* Provisioning delivers the role ARN (certificate ARN, VPC id) of add-on a.
ArnResolve(a) ==
  /\ hand # "load"
  /\ a \in AsyncAddons \ resolved
  /\ resolved' = resolved \cup {a}
  /\ processed' =
       IF resolver = "promises" /\ imp[a] = "loaded"
       THEN processed \cup Returned(<<LoadedValueFile(a)>>, resolved')
       ELSE processed
  /\ UNCHANGED <<unit, config, run, now, faults, hand, imp, eksAddonsPrFiles, snapshot,
                 batch, reported, registered, serialized, calls, host, history>>

\* The apply callback of the role ARN in an add-on module that publishes
\* itself: uploadValueFile with the resolved values.
ApplyUpload(a) ==
  /\ resolver = "direct"
  /\ hand = "direct"
  /\ Uploads(a)
  /\ a \in AsyncAddons \cap resolved
  /\ FileResource(ResolvedValueFile(resolver, a)) \notin registered.files
  /\ uploadValueFile({a})
  /\ UNCHANGED <<unit, config, processed, run, now, faults, hand, imp, resolved, eksAddonsPrFiles,
                 snapshot, batch, reported, calls, host, history>>

\* import(`./eks-addons/${addon}`) resolves and its .then handler runs.
ImportThen(a) ==
  /\ imp[a] = "pending"
  /\ a \notin failing
  /\ imp' = [imp EXCEPT ![a] = "loaded"]
  /\ eksAddonsPrFiles' =
       IF resolver = "push" THEN Append(eksAddonsPrFiles, RawFile(a))
       ELSE eksAddonsPrFiles
  /\ processed' =
       CASE resolver = "readdir" ->
              processed \cup Returned(<<LoadedValueFile(a)>>, resolved)
         [] resolver = "promises" /\ a \notin AsyncAddons \ resolved ->
              processed \cup Returned(<<LoadedValueFile(a)>>, resolved)
         [] OTHER -> processed
  /\ UNCHANGED <<unit, config, run, now, faults, hand, resolved, snapshot, batch,
                 reported, registered, serialized, calls, host, history>>

\* import(...) rejects.  "promises" catches it per producer and yields [];
\* "readdir" lets it reject Promise.all, whose .catch logs it; "push" has
\* no handler for it.
ImportReject(a) ==
  /\ imp[a] = "pending"
  /\ a \in failing
  /\ imp' = [imp EXCEPT ![a] = "failed"]
  /\ reported' =
       CASE resolver = "promises" -> reported \cup {[how |-> "console.error", who |-> a]}
         [] resolver = "readdir" /\ hand = "waiting" ->
              reported \cup {[how |-> "console.error", who |-> a]}
         [] resolver = "push" -> reported \cup {[how |-> "unhandledRejection", who |-> a]}
         [] OTHER -> reported
  /\ hand' = IF resolver = "readdir" /\ hand = "waiting" THEN "aborted" ELSE hand
  /\ UNCHANGED <<unit, config, processed, run, now, faults, resolved, eksAddonsPrFiles, snapshot,
                 batch, registered, serialized, calls, host, history>>

\* The callback of pulumi.all([...arns]).apply: six pushes into gitPrFiles.
ApplyPush ==
  /\ resolver = "apply"
  /\ hand = "waiting"
  /\ eksAddonsPrFiles = <<>>
  /\ AsyncAddons \subseteq resolved
  /\ eksAddonsPrFiles' = Pushes(applyPushOrder)
  /\ processed' = processed \cup Returned(eksAddonsPrFiles', resolved)
  /\ UNCHANGED <<unit, config, run, now, faults, hand, imp, resolved, snapshot, batch,
                 reported, registered, serialized, calls, host, history>>

\* The callback of pulumi.all([eksAddonsPrFiles, argoCdPrFiles]).apply.
Handover ==
  /\ hand = "waiting"
  /\ CallbackReady
  /\ createGitPR(HandedFiles)
  /\ UNCHANGED <<unit, config, processed, run, now, faults, imp, resolved, eksAddonsPrFiles,
                 snapshot, reported, calls, host, history>>

\* -------------------------------------------------- engine and Git host
branchName == BranchName(resolver, now)

\* the branch of the RepositoryFile resources
targetBranch == IF publisher = "upload" THEN mainBranch ELSE branchName

\* Called with a call that failed counting as not made, so that the engine
\* issues it again
CalledWithSuccess(op, path) ==
  \E c \in calls : c.op = op /\ c.path = path /\ c.result # "fault"

\* the engine has issued the call of the resource
Called(op, path) == \E c \in calls : c.op = op /\ c.path = path

Succeeded(op, path) == \E c \in calls : c.op = op /\ c.path = path /\ c.result = "ok"

FileAtRest(b, path) == \E f \in repo : f.branch = b /\ f.path = path

\* a call of kind op of this transaction has failed
Failed(op) == \E c \in calls : c.op = op /\ c.result # "ok"

\* RepoAfter with a rollback: a refused commit removes what the transaction
\* has committed to the branch
RepoAfterRollback(result, fr) ==
  IF result = "ok"
  THEN {f \in repo : ~(f.branch = targetBranch /\ f.path = fr.path)}
       \cup {[branch |-> targetBranch, path |-> fr.path, content |-> fr.content]}
  ELSE {f \in repo : f.branch # targetBranch}

\* the files at rest once the Git host has answered result to the commit of fr
RepoAfter(result, fr) ==
  IF result = "ok"
  THEN {f \in repo : ~(f.branch = targetBranch /\ f.path = fr.path)}
       \cup {[branch |-> targetBranch, path |-> fr.path, content |-> fr.content]}
  ELSE repo

\* what the Git host answers to a branch-create request
BranchResult(fault) ==
  IF fault THEN "fault" ELSE IF branchName \in branches THEN "exists" ELSE "ok"

\* what the Git host answers to a file create request
FileResult(fault, path) ==
  CASE fault -> "fault"
    [] targetBranch \notin branches -> "noBranch"
    [] ~OverwriteOnCreate(publisher) /\ FileAtRest(targetBranch, path) -> "exists"
    [] OTHER -> "ok"

\* what the Git host answers to a pull-request create request
PullResult(fault) ==
  CASE fault -> "fault"
    [] branchName \notin branches -> "noBranch"
    [] \E q \in prs : q.head = branchName -> "exists"
    [] OTHER -> "ok"

Faulty(fault) == fault => faults < MaxFaults

\* The engine creates the Branch resource: the branch-create call.
HostBranch ==
  /\ registered.branch
  /\ ~Called("branch", "")
  /\ \E fault \in BOOLEAN :
       /\ Faulty(fault)
       /\ faults' = IF fault THEN faults + 1 ELSE faults
       /\ calls' = calls \cup {[op |-> "branch", path |-> "", branch |-> branchName,
                                result |-> BranchResult(fault), ordered |-> TRUE,
                                afterFailure |-> FALSE]}
       /\ branches' = IF BranchResult(fault) = "ok"
                      THEN branches \cup {branchName} ELSE branches
  /\ UNCHANGED <<unit, config, processed, run, now, hand, imp, resolved, eksAddonsPrFiles, snapshot,
                 batch, reported, registered, serialized, repo, prs, history>>

BranchApplyReady ==
  /\ publisher = "chain"
  /\ hand = "handed"
  /\ Succeeded("branch", "")
  /\ serialized = {}

\* The callback of branch.apply in the chained createGitPR: files.map(...).
BranchApply ==
  /\ BranchApplyReady
  /\ RegisterFiles(batch)
  /\ hand' = IF DumpablePrefix(batch) = batch THEN "handed" ELSE "crashed"
  /\ UNCHANGED <<unit, config, processed, run, now, faults, imp, resolved, eksAddonsPrFiles,
                 snapshot, batch, reported, calls, host, history>>

\* The engine creates one RepositoryFile resource: a file-commit call.
HostFile(fr) ==
  /\ fr \in registered.files
  /\ ~Called("file", fr.path)
  /\ \E fault \in BOOLEAN :
       /\ Faulty(fault)
       /\ faults' = IF fault THEN faults + 1 ELSE faults
       /\ calls' = calls \cup {[op |-> "file", path |-> fr.path, branch |-> targetBranch,
                                result |-> FileResult(fault, fr.path),
                                ordered |-> publisher = "upload" \/ Called("branch", ""),
                                afterFailure |-> Failed("branch")]}
       /\ repo' = RepoAfter(FileResult(fault, fr.path), fr)
  /\ UNCHANGED <<unit, config, processed, run, now, hand, imp, resolved, eksAddonsPrFiles, snapshot,
                 batch, reported, registered, serialized, branches, prs, history>>

FilesApplyReady ==
  /\ publisher = "chain"
  /\ hand = "handed"
  /\ serialized # {}
  /\ ~registered.pr
  /\ \A fr \in registered.files : Succeeded("file", fr.path)

\* The callback of pulumi.all(filePromises).apply in the chained createGitPR.
FilesApply ==
  /\ FilesApplyReady
  /\ registered' = [registered EXCEPT !.pr = TRUE]
  /\ UNCHANGED <<unit, config, processed, run, now, faults, hand, imp, resolved, eksAddonsPrFiles,
                 snapshot, batch, reported, serialized, calls, host, history>>

\* The engine creates the RepositoryPullRequest resource.
HostPR ==
  /\ registered.pr
  /\ ~Called("pr", "")
  /\ \E fault \in BOOLEAN :
       /\ Faulty(fault)
       /\ faults' = IF fault THEN faults + 1 ELSE faults
       /\ calls' = calls \cup
            {[op |-> "pr", path |-> "", branch |-> branchName,
              result |-> PullResult(fault),
              ordered |-> \A fr \in registered.files : Called("file", fr.path),
              afterFailure |-> Failed("file")]}
       /\ prs' = IF PullResult(fault) = "ok"
                 THEN prs \cup {[head |-> branchName, base |-> "main"]} ELSE prs
  /\ UNCHANGED <<unit, config, processed, run, now, hand, imp, resolved, eksAddonsPrFiles, snapshot,
                 batch, reported, registered, serialized, branches, repo, history>>

\* the apply callback of add-on a has still to run
UploadPending(a) ==
  /\ resolver = "direct"
  /\ Uploads(a)
  /\ a \in AsyncAddons
  /\ FileResource(ResolvedValueFile(resolver, a)) \notin registered.files

\* ------------------------------------------------------------------ runs
\* nothing of the current run is left to happen
RunEnded ==
  /\ hand \in {"handed", "aborted", "crashed", "direct"}
  /\ \A a \in Addons : imp[a] # "pending"
  /\ AsyncAddons \subseteq resolved
  /\ \A a \in Addons : ~UploadPending(a)
  /\ registered.branch => Called("branch", "")
  /\ \A fr \in registered.files : Called("file", fr.path)
  /\ registered.pr => Called("pr", "")
  /\ ~BranchApplyReady
  /\ ~FilesApplyReady

\* The operator runs the pipeline again: a new process, the same Git host,
\* Date.now() the same millisecond or a later one.  The model follows a
\* repeat only of a run none of whose Git calls failed.
NextRun ==
  /\ run < MaxRuns
  /\ RunEnded
  /\ \A c \in calls : c.result = "ok"
  /\ run' = run + 1
  /\ now' \in {now, now + 1}
  /\ handedLog' = Append(handedLog, [handed |-> hand \in {"handed", "crashed"}, branch |-> branchName,
                                     batch |-> batch, files |-> registered.files,
                                     pushed |-> eksAddonsPrFiles])
  /\ hand' = "load"
  /\ imp' = [a \in Addons |-> "idle"]
  /\ resolved' = {}
  /\ eksAddonsPrFiles' = <<>>
  /\ snapshot' = <<>>
  /\ batch' = <<>>
  /\ reported' = {}
  /\ processed' = {}
  /\ registered' = [branch |-> FALSE, files |-> {}, pr |-> FALSE]
  /\ serialized' = {}
  /\ calls' = {}
  /\ UNCHANGED <<unit, config, faults, host>>

Next ==
  \/ Load
  \/ \E a \in Addons : ArnResolve(a)
  \/ \E a \in Addons : ApplyUpload(a)
  \/ \E a \in Addons : ImportThen(a)
  \/ \E a \in Addons : ImportReject(a)
  \/ ApplyPush
  \/ Handover
  \/ HostBranch
  \/ BranchApply
  \/ \E fr \in registered.files : HostFile(fr)
  \/ FilesApply
  \/ HostPR
  \/ NextRun

Spec == Init /\ [][Next]_vars

\* What a started run does without anybody's help: Node's event loop runs
\* every callback that is ready and the engine creates every resource that
\* is registered.  Starting another run is the operator's choice.
Progress ==
  \/ Load
  \/ \E a \in Addons : ArnResolve(a)
  \/ \E a \in Addons : ApplyUpload(a)
  \/ \E a \in Addons : ImportThen(a)
  \/ \E a \in Addons : ImportReject(a)
  \/ ApplyPush
  \/ Handover
  \/ HostBranch
  \/ BranchApply
  \/ \E fr \in registered.files : HostFile(fr)
  \/ FilesApply
  \/ HostPR

FairSpec == Spec /\ WF_vars(Progress)

\* the producer whose handles (its import() promise, its role ARN) may stay
\* pending for ever
hung == addonList[MaxAddons]

\* Progress with nothing that settles a handle of the hung producer.  No
\* variant arms a timer next to pulumi.all or Promise.all, so no step stands
\* for one.
ProgressOfOthers ==
  \/ Load
  \/ \E a \in Addons \ {hung} : ArnResolve(a)
  \/ \E a \in Addons : ApplyUpload(a)
  \/ \E a \in Addons \ {hung} : ImportThen(a)
  \/ \E a \in Addons \ {hung} : ImportReject(a)
  \/ ApplyPush
  \/ Handover
  \/ HostBranch
  \/ BranchApply
  \/ \E fr \in registered.files : HostFile(fr)
  \/ FilesApply
  \/ HostPR

\* the runs in which only the handles of the other producers are sure to
\* settle
HangSpec == Spec /\ WF_vars(ProgressOfOthers)

\* ------------------------------------------- the publishers called directly
\* createGitPR and uploadValueFile are exported and take any GitFileMap.
\* Here a caller passes one file whose name and document are drawn freely:
\* args.name is the fileName cut at its "/", args.json the document,
\* args.other a second document to serialize.

\* the segments a fileName may be made of
nameSegments == {"karpenter", ".."}

\* the keys and the scalar a document may hold
docKeys == {"clusterName", "region"}
docValues == {"dev"}

Names == UNION {[1..n -> nameSegments] : n \in 1..MaxSegments}

Docs ==
  {d \in UNION {[1..n -> docKeys \X docValues] : n \in 0..MaxKeys} :
     \A i, j \in 1..Len(d) : d[i][1] = d[j][1] => i = j}

\* the fileName string of its segments
RECURSIVE Join(_)
Join(segs) ==
  IF Len(segs) = 1 THEN segs[1] ELSE segs[1] \o "/" \o Join(Tail(segs))

\* the directories and the file of the path built for a fileName
PathSegments(name) ==
  <<"releases", environment>>
    \o [i \in 1..Len(name) |->
          IF i = Len(name) THEN name[i] \o ".generated.yaml" ELSE name[i]]

\* where a path leads once the Git host has followed its ".." segments
RECURSIVE Followed(_, _)
Followed(stack, rest) ==
  IF rest = <<>> THEN stack
  ELSE IF Head(rest) = ".."
       THEN Followed(IF stack = <<>> THEN <<>> ELSE SubSeq(stack, 1, Len(stack) - 1),
                     Tail(rest))
       ELSE Followed(Append(stack, Head(rest)), Tail(rest))

UnitInit ==
  /\ publisher \in Publishers
  /\ resolver = IF publisher = "upload" THEN "direct" ELSE "apply"
  /\ failing = {}
  /\ run = 1
  /\ now = 0
  /\ faults = 0
  /\ FreshRun
  /\ branches = {mainBranch}
  /\ repo = {}
  /\ prs = {}
  /\ handedLog = <<>>
  /\ NoIam
  /\ args \in [name : Names, json : Docs, other : Docs]
  /\ results = [step |-> "idle", path |-> "", content |-> [enc |-> "", doc |-> <<>>],
                again |-> <<>>, names |-> NoNames, second |-> NoSecond]

\* what generateRandomString(32) may return
randomStrings == {"3f9c", "a41b"}

\* hashString: the SHA-1 of its input, kept as the input under a tag
hashString(input) == <<"sha1", input>>

\* filePath.replace("/", "-"): the first "/" of the path becomes "-", the
\* others stay
ReplaceFirstSlash(segs) == segs[1] \o "-" \o Join(Tail(segs))

\* FileResourceName naming the resource by the file of the path alone
FileResourceNameOfFile(p, name, rnd) ==
  IF p \in {"chain", "upload"}
  THEN <<PathSegments(name)[Len(PathSegments(name))] \o "-git">>
  ELSE <<rnd \o "-git-file">>

\* the Pulumi resource names a call of the publisher gives its resources
BranchResourceName(p, b) ==
  CASE p = "chain" -> <<"git-branch">>
    [] p = "upload" -> <<>>
    [] OTHER -> <<hashString(b), "-git-branch">>

FileResourceName(p, name, rnd) ==
  IF p \in {"chain", "upload"}
  THEN <<ReplaceFirstSlash(PathSegments(name)) \o "-git">>
  ELSE <<rnd \o "-git-file">>

PullResourceName(p, rnd) ==
  CASE p = "chain" -> <<"git-pr">>
    [] p = "upload" -> <<>>
    [] OTHER -> <<rnd \o "-git-pr">>

\* The body of the publisher for the file: the path is built, the document
\* serialized, the resources constructed under their names.
CallPublisher ==
  /\ results.step = "idle"
  /\ \E rf, rp \in randomStrings :
       results' = [results EXCEPT
                     !.step = "registered",
                     !.path = FilePath(publisher, Join(args.name)),
                     !.content = ContentOf(publisher, args.json),
                     !.names = [branch |-> BranchResourceName(publisher, branchName),
                                file |-> FileResourceName(publisher, args.name, rf),
                                pr |-> PullResourceName(publisher, rp)]]
  /\ UNCHANGED <<args, config, run, now, faults, perRun, host, history, iam>>

\* The engine creates the RepositoryFile resource: the commit is issued.
IssueCommit ==
  /\ results.step = "registered"
  /\ results' = [results EXCEPT !.step = "issued"]
  /\ UNCHANGED <<args, config, run, now, faults, perRun, host, history, iam>>

\* The serializer is called on the document once more, and on the other one.
SerializeAgain ==
  /\ results.again = <<>>
  /\ results' = [results EXCEPT
                   !.again = <<ContentOf(publisher, args.json),
                               ContentOf(publisher, args.other)>>]
  /\ UNCHANGED <<args, config, run, now, faults, perRun, host, history, iam>>

\* what the engine does with a resource of a second call: a name that is
\* registered already is a duplicate URN and the resource is never created
Registration(name, taken) ==
  CASE name = <<>> -> "none"
    [] name = taken -> "duplicate"
    [] OTHER -> "registered"

\* The statement that calls the publisher runs a second time in the same
\* program, with the same file: the branch name is built again, in the same
\* millisecond or a later one, and the body of the publisher runs again from
\* the top.  The callback of branch.apply in the chained variant runs only if
\* the Branch was created.
CallPublisherAgain ==
  /\ results.step # "idle"
  /\ results.second = NoSecond
  /\ \E rf, rp \in randomStrings, t \in {now, now + 1} :
       LET b == Registration(BranchResourceName(publisher, BranchName(resolver, t)),
                             results.names.branch)
           chained == publisher = "chain" /\ b # "registered"
       IN  results' =
             [results EXCEPT
                !.second =
                   [branch |-> b,
                    file |-> IF chained THEN "none"
                             ELSE Registration(FileResourceName(publisher, args.name, rf),
                                               results.names.file),
                    pr |-> IF chained THEN "none"
                           ELSE Registration(PullResourceName(publisher, rp),
                                             results.names.pr)]]
  /\ UNCHANGED <<args, config, run, now, faults, perRun, host, history, iam>>

\* The engine creates a resource the second call registered.
IssueAgain(kind) ==
  /\ results.second[kind] = "registered"
  /\ results' = [results EXCEPT !.second[kind] = "issued"]
  /\ UNCHANGED <<args, config, run, now, faults, perRun, host, history, iam>>

UnitNext ==
  \/ CallPublisher
  \/ IssueCommit
  \/ SerializeAgain
  \/ CallPublisherAgain
  \/ \E kind \in {"branch", "file", "pr"} : IssueAgain(kind)

UnitSpec == UnitInit /\ [][UnitNext]_vars

\* ------------------------------------------------------- the IAM helpers
\* createRoles, createInstanceProfiles and createIRSARole are pure in their
\* arguments: they construct resources under names they compute and return
\* them.  A resource is kept as the name and the arguments it was
\* constructed with.

\* the two implementations of createRoles and createInstanceProfiles
Implementations == {"loop", "arrayFrom"}

eksClusterName == "dev"

\* quantity is a JavaScript number.  It is kept in halves (halves = 2 *
\* quantity), so that the values between two integers and below zero are
\* among the inputs.
Quantities == -2..(2 * MaxQuantity)

awsPolicyArns == {"AmazonEBSCSIDriverPolicy", "CloudWatchAgentServerPolicy"}

customPolicyValues ==
  {[actions |-> "kms:Decrypt", resources |-> "*"],
   [actions |-> "ec2:DescribeInstances", resources |-> "arn:aws:ec2"]}

SeqsUpTo(S, n) == UNION {[1..k -> S] : k \in 0..n}

\* createRole(name): the aws.iam.Role constructed under that name
createRole(name) == [role |-> name]

\* for (let i = from; i < quantity; i++) roles.push(createRole(...))
RECURSIVE RolesLoop(_, _, _)
RolesLoop(name, halves, from) ==
  IF 2 * from < halves
  THEN <<createRole(name \o "-role-" \o ToString(from))>> \o RolesLoop(name, halves, from + 1)
  ELSE <<>>

\* ToLength of the length property Array.from reads: truncated toward zero,
\* at least 0
ToLength(halves) == IF halves <= 0 THEN 0 ELSE halves \div 2

\* createRoles with the loop bound i <= quantity
createRolesInclusive(impl, name, halves) ==
  IF impl = "loop"
  THEN RolesLoop(name, halves + 2, 0)
  ELSE [k \in 1..ToLength(halves) |-> createRole(name \o "-role-" \o ToString(k - 1))]

\* createRoles(name, quantity)
createRoles(impl, name, halves) ==
  IF impl = "loop"
  THEN RolesLoop(name, halves, 0)
  ELSE [k \in 1..ToLength(halves) |-> createRole(name \o "-role-" \o ToString(k - 1))]

\* createInstanceProfiles linking profile i to the role after role i
createInstanceProfilesShifted(impl, name, roles) ==
  [k \in 1..Len(roles) |->
     [instanceProfile |-> name \o "-instanceProfile-" \o ToString(k - 1),
      role |-> roles[(k % Len(roles)) + 1]]]

\* createInstanceProfiles(name, roles): the loop over the indices and
\* roles.map build the same list
createInstanceProfiles(impl, name, roles) ==
  [k \in 1..Len(roles) |->
     [instanceProfile |-> name \o "-instanceProfile-" \o ToString(k - 1),
      role |-> roles[k]]]

\* the Statement list of the custom inline policy
Statements(customPolicies) ==
  [k \in 1..Len(customPolicies) |->
     [Effect |-> "Allow", Action |-> customPolicies[k].actions,
      Resource |-> customPolicies[k].resources]]

\* createIRSARole constructing the inline policy whatever customPolicies holds
createIRSARoleAlways(service, awsPolicies, customPolicies) ==
  [role |-> "role-irsa-" \o service,
   attachments |->
     [k \in 1..Len(awsPolicies) |->
        [name |-> "policy-" \o service \o "-attachment-" \o ToString(k - 1),
         role |-> "role-irsa-" \o service, policyArn |-> awsPolicies[k]]],
   custom |->
     << [name |-> "policy-attachment-" \o service \o "-custom-policy",
         role |-> "role-irsa-" \o service,
         Statement |-> Statements(customPolicies)] >>]

\* createIRSARole(service, namespace, awsPolicies, customPolicies): the
\* resources it constructs
createIRSARole(service, awsPolicies, customPolicies) ==
  [role |-> "role-irsa-" \o service,
   attachments |->
     [k \in 1..Len(awsPolicies) |->
        [name |-> "policy-" \o service \o "-attachment-" \o ToString(k - 1),
         role |-> "role-irsa-" \o service, policyArn |-> awsPolicies[k]]],
   custom |->
     IF Len(customPolicies) > 0
     THEN << [name |-> "policy-attachment-" \o service \o "-custom-policy",
              role |-> "role-irsa-" \o service,
              Statement |-> Statements(customPolicies)] >>
     ELSE <<>>]

IamInit ==
  /\ publisher = "sync"
  /\ resolver = "apply"
  /\ failing = {}
  /\ run = 1
  /\ now = 0
  /\ faults = 0
  /\ FreshRun
  /\ branches = {mainBranch}
  /\ repo = {}
  /\ prs = {}
  /\ handedLog = <<>>
  /\ NoCall
  /\ iamArgs \in [impl : Implementations, name : {eksClusterName}, halves : Quantities,
                  service : {"aws-ebs-csi-driver"},
                  awsPolicies : SeqsUpTo(awsPolicyArns, MaxPolicies),
                  customPolicies : SeqsUpTo(customPolicyValues, MaxPolicies)]
  /\ iamOut = [called |-> {}, roles |-> <<>>, profiles |-> <<>>, irsa |-> <<>>]

\* const roles = iam.createRoles(eksClusterName, quantity)
CallCreateRoles ==
  /\ "createRoles" \notin iamOut.called
  /\ iamOut' = [iamOut EXCEPT
                  !.called = @ \cup {"createRoles"},
                  !.roles = createRoles(iamArgs.impl, iamArgs.name, iamArgs.halves)]
  /\ UNCHANGED <<iamArgs, args, results, config, run, now, faults, perRun, host, history>>

\* iam.createInstanceProfiles(eksClusterName, roles)
CallCreateInstanceProfiles ==
  /\ "createRoles" \in iamOut.called
  /\ "createInstanceProfiles" \notin iamOut.called
  /\ iamOut' = [iamOut EXCEPT
                  !.called = @ \cup {"createInstanceProfiles"},
                  !.profiles = createInstanceProfiles(iamArgs.impl, iamArgs.name,
                                                      iamOut.roles)]
  /\ UNCHANGED <<iamArgs, args, results, config, run, now, faults, perRun, host, history>>

\* createIRSARole(service, namespace, awsPolicies, customPolicies)
CallCreateIRSARole ==
  /\ "createIRSARole" \notin iamOut.called
  /\ iamOut' = [iamOut EXCEPT
                  !.called = @ \cup {"createIRSARole"},
                  !.irsa = <<createIRSARole(iamArgs.service, iamArgs.awsPolicies,
                                            iamArgs.customPolicies)>>]
  /\ UNCHANGED <<iamArgs, args, results, config, run, now, faults, perRun, host, history>>

IamNext == CallCreateRoles \/ CallCreateInstanceProfiles \/ CallCreateIRSARole

IamSpec == IamInit /\ [][IamNext]_vars

\* ================================================================ claims
\* the publisher has been called in the current run
Published == hand \in {"handed", "crashed"}

\* file names in ascending order, as the strings compare
sortedNames ==
  << "amazon-cloudwatch-observability", "app-of-apps-infrastructure",
     "app-of-apps-security", "aws-ebs-csi-driver", "aws-load-balancer-controller",
     "grafana", "ingress-nginx", "karpenter" >>

Rank(name) == CHOOSE i \in 1..Len(sortedNames) : sortedNames[i] = name

CountOf(files, name) == Cardinality({i \in 1..Len(files) : files[i].fileName = name})

\* C1: in every publish transaction the branch-create call is issued before
\* every file-commit call, and every file-commit call before the
\* pull-request-create call.  (ordered is recorded when a call is issued.)
C1_BranchThenFilesThenPull == \A c \in calls : c.ordered

\* C2: the publisher is called only after every producer has resolved or
\* failed: once the batch is handed over no producer is pending, so none
\* delivers later.
C2_NoProducerPendingAtHandover ==
  Published =>
    \A a \in Addons :
      /\ imp[a] # "pending"
      /\ (a \in AsyncAddons /\ imp[a] # "failed") => a \in resolved

\* C3: with exactly one of the N producers raising an error, the batch
\* handed to the publisher holds exactly the fragments of the other N-1,
\* the failure is reported, and the publish takes place.
C3_OneFailureIsIsolated ==
  (Cardinality(failing) = 1 /\ RunEnded) =>
    /\ hand = "handed"
    /\ registered.branch
    /\ reported # {}
    /\ \A a \in Addons :
         CountOf(batch, FileNameOf(a)) = IF a \in failing THEN 0 ELSE 1

\* C4: whenever a fragment is serialized, every asynchronous value its
\* content depends on has already resolved.
C4_SerializedAfterResolution == \A c \in serialized : c.ready

\* C5: if the branch-create call fails, no file-commit call and no
\* pull-request-create call is issued in that transaction.
C5_FailedBranchAborts ==
  (\E c \in calls : c.op = "branch" /\ c.result # "ok") =>
    \A c \in calls : c.op = "branch"

\* the current run publishes the batch of an earlier run against the branch
\* of that run
SamePublishAgain ==
  \E i \in 1..Len(handedLog) :
    /\ handedLog[i].handed
    /\ Published
    /\ handedLog[i].branch = branchName
    /\ handedLog[i].batch = batch

\* C6: publishing the same batch twice against the same branch: the second
\* publish overwrites each file, no file commit is refused, no file appears
\* twice, and the branch holds the files of the first publish unchanged.
C6_SecondPublishOverwrites ==
  SamePublishAgain =>
    /\ \A c \in calls : c.op = "file" => c.result \in {"ok", "fault"}
    /\ \A f, g \in repo : (f.branch = g.branch /\ f.path = g.path) => f = g
    /\ \A i \in 1..Len(handedLog) :
         handedLog[i].branch = branchName =>
           \A fr \in handedLog[i].files :
             [branch |-> branchName, path |-> fr.path, content |-> fr.content] \in repo

\* C7: every producer that resolved has exactly one fragment in the batch
\* handed to the publisher and every producer that failed has none.
C7_OneFragmentPerResolvedProducer ==
  (Published /\ RunEnded) =>
    \A a \in Addons :
      CountOf(batch, FileNameOf(a)) = IF imp[a] = "failed" THEN 0 ELSE 1

\* C8: the batch handed to the publisher is in ascending order of fileName.
C8_BatchSortedByName ==
  Published =>
    \A i \in 1..Len(batch) - 1 : Rank(batch[i].fileName) < Rank(batch[i + 1].fileName)

\* C9: two runs with the same producers and values hand the publisher the
\* same fragment sequence and register the same file contents, whatever the
\* order in which the producers completed.
C9_BatchIndependentOfCompletionOrder ==
  \A i \in 1..Len(handedLog) :
    (handedLog[i].handed /\ Published) =>
      /\ handedLog[i].batch = batch
      /\ (hand = "handed" /\ publisher # "chain") => registered.files = handedLog[i].files
      /\ \A fr \in registered.files :
           \A gr \in handedLog[i].files : fr.path = gr.path => fr.content = gr.content

\* two runs whose producers completed in different orders and that both
\* handed a batch over
C9_Witness ==
  /\ run = 2
  /\ hand = "handed"
  /\ handedLog[1].handed
  /\ Len(eksAddonsPrFiles) = MaxAddons
  /\ Len(handedLog[1].pushed) = MaxAddons
  /\ handedLog[1].pushed # eksAddonsPrFiles
  /\ handedLog[1].batch = batch

\* C10: the fragment names of a batch are pairwise distinct, so no two file
\* resources of a transaction have the same path; the same holds of the
\* module-level array the callbacks push into.
C10_NamesDistinct ==
  /\ \A i, j \in 1..Len(batch) : batch[i].fileName = batch[j].fileName => i = j
  /\ \A i, j \in 1..Len(eksAddonsPrFiles) :
       eksAddonsPrFiles[i].fileName = eksAddonsPrFiles[j].fileName => i = j
  /\ Cardinality({fr.path : fr \in registered.files}) = Cardinality(registered.files)
  /\ (hand = "handed" /\ publisher # "chain") =>
       Cardinality(registered.files) = Len(batch)

\* a batch that holds fragments pushed from the apply callback, registered
C10_Witness ==
  /\ resolver = "apply"
  /\ hand = "handed"
  /\ Len(batch) = Len(githubBootloaders) + MaxAddons
  /\ Cardinality(registered.files) = Len(batch)

\* C11: if every producer fails, the run fails and no publish transaction is
\* started; if some but not all fail, the publish proceeds with exactly the
\* fragments of the successful ones and every failure is reported.
C11_AllFailedStopsSomeFailedProceeds ==
  /\ (failing = Addons /\ \A a \in Addons : imp[a] = "failed") =>
       (~Published /\ ~registered.branch)
  /\ (failing # {} /\ failing # Addons /\ RunEnded) =>
       /\ hand = "handed"
       /\ registered.branch
       /\ {r.who : r \in reported} = failing
       /\ \A a \in Addons :
            CountOf(batch, FileNameOf(a)) = IF a \in failing THEN 0 ELSE 1

\* C12: every file commit of a publish targets the branch the transaction
\* created, never main, and a transaction whose calls all succeeded has
\* opened exactly one pull request, from that branch to main.
C12_CommitsOnOwnBranchOnePull ==
  /\ \A c \in calls : c.op = "file" => (c.branch # mainBranch /\ c.branch = branchName)
  /\ (RunEnded /\ hand # "crashed" /\ (\E c \in calls : c.op = "file")
        /\ \A c \in calls : c.result = "ok") =>
       /\ Cardinality({c \in calls : c.op = "pr"}) = 1
       /\ [head |-> branchName, base |-> "main"] \in prs

\* C13: whatever step of the transaction fails, what the earlier steps
\* produced stays in place unchanged: the branch of a successful
\* branch-create exists, the file of every successful commit is at rest with
\* the content committed, and the pull request of a successful create exists.
C13_NoRollback ==
  \A c \in calls :
    c.result = "ok" =>
      CASE c.op = "branch" -> c.branch \in branches
        [] c.op = "file" ->
             \E fr \in registered.files :
               /\ fr.path = c.path
               /\ [branch |-> c.branch, path |-> c.path, content |-> fr.content] \in repo
        [] OTHER -> [head |-> c.branch, base |-> "main"] \in prs

\* a finished transaction in which one file commit failed after the branch
\* and another file had been committed
C13_Witness ==
  /\ RunEnded
  /\ publisher # "upload"
  /\ \E c \in calls : c.op = "branch" /\ c.result = "ok"
  /\ \E c \in calls : c.op = "file" /\ c.result = "ok"
  /\ \E c \in calls : c.op = "file" /\ c.result = "fault"

\* C14: once a file commit of the transaction has failed, the
\* pull-request-create call is not issued.
C14_FailedCommitStopsPull ==
  \A c \in calls : c.op = "pr" => ~c.afterFailure

\* C15: within one run every Git-host call is issued at most once, also
\* after it failed.
C15_NoCallTwice ==
  \A c, d \in calls : (c.op = d.op /\ c.path = d.path) => c = d

\* a finished run one of whose calls failed
C15_Witness ==
  /\ RunEnded
  /\ \E c \in calls : c.result = "fault"
  /\ \E c \in calls : c.result = "ok"

\* C16: two runs never pass the same branch name to createGitPR.
C16_BranchNamesDiffer ==
  \A i \in 1..Len(handedLog) :
    (handedLog[i].handed /\ Published) => handedLog[i].branch # branchName

\* the fragment names the program knows
fileNames ==
  {FileNameOf(addonList[i]) : i \in 1..Len(addonList)}
    \cup {argoCdPrFiles[i].fileName : i \in 1..Len(argoCdPrFiles)}

\* C17: the path of every file resource is releases/<environment>/<name>
\* .generated.yaml, without a leading slash.
C17_PathIsReleasesEnvName ==
  \A fr \in registered.files :
    \E n \in fileNames :
      fr.path = "releases/" \o environment \o "/" \o n \o ".generated.yaml"

\* C20: the content handed to a file resource, and so the file at rest, is
\* the plain serialized text, never its base64 encoding.
C20_PlainTextAtRest ==
  /\ \A fr \in registered.files : fr.content.enc # "base64"
  /\ \A f \in repo : f.content.enc # "base64"

\* the name holds a "/" or a ".."
Hostile(name) == Len(name) > 1 \/ \E i \in 1..Len(name) : name[i] = ".."

\* C18: a fragment whose name holds "/" or ".." is rejected before its path
\* is built: no commit is issued for it, and every commit that is issued
\* leads to a file inside releases/<environment>/.
C18_HostileNameRejected ==
  results.step = "issued" =>
    /\ ~Hostile(args.name)
    /\ LET at == Followed(<<>>, PathSegments(args.name))
       IN  Len(at) = 3 /\ SubSeq(at, 1, 2) = <<"releases", environment>>

\* the two documents hold the same keys with the same values
SameDocument(a, b) == {a[i] : i \in 1..Len(a)} = {b[i] : i \in 1..Len(b)}

\* C19: two documents that are equal as key-value documents serialize to
\* the same text whatever the insertion order of their keys, and serializing
\* a document twice gives the same text.
C19_SerializationCanonical ==
  results.again # <<>> =>
    /\ SameDocument(args.json, args.other) => results.again[1] = results.again[2]
    /\ results.step # "idle" => results.again[1] = results.content

\* C21: if one fragment cannot be serialized, only that fragment is
\* dropped: the commit of every other fragment of the batch and the pull
\* request are still issued.
C21_UnserializableFragmentAlone ==
  (RunEnded /\ Published /\ \E c \in serialized : ~c.ok) =>
    /\ \A i \in 1..Len(batch) :
         CanDump(batch[i].json) => Called("file", FilePath(publisher, batch[i].fileName))
    /\ Called("pr", "")

\* C25: processGitPrFiles returns the files only once every asynchronous
\* value in them has resolved: no caller has received a file one of whose
\* values was still pending.
C25_ProcessedFilesAreResolved == \A r \in processed : ~r.pending

\* C22: under fairness, a run in which exactly one producer fails still
\* starts the publish transaction, with one fragment of every other
\* producer.
C22_FailingProducerDoesNotBlock ==
  (hand = "waiting" /\ Cardinality(failing) = 1)
    ~> (Published /\ \A a \in Addons \ failing : CountOf(batch, FileNameOf(a)) = 1)

\* C23: a run of a pipeline that awaits its producers, in which the handles
\* of one producer may never settle, still reaches the publish step, with
\* one fragment of every other producer.
C23_HungProducerTimesOut ==
  (hand = "waiting" /\ failing = {} /\ resolver \in {"promises", "apply"})
    ~> (Published /\ \A a \in Addons \ {hung} : CountOf(batch, FileNameOf(a)) = 1)

\* C24: when the publish of a batch is triggered twice in one run, the
\* second trigger issues nothing: no second branch, file commit or pull
\* request.
C24_SecondTriggerDeduplicated ==
  \A kind \in {"branch", "file", "pr"} : results.second[kind] # "issued"

C27_OneProfilePerRole ==
  "createInstanceProfiles" \in iamOut.called =>
    /\ Len(iamOut.profiles) = Len(iamOut.roles)
    /\ \A k \in 1..Len(iamOut.profiles) :
         /\ iamOut.profiles[k].instanceProfile
              = iamArgs.name \o "-instanceProfile-" \o ToString(k - 1)
         /\ iamOut.profiles[k].role = iamOut.roles[k]

\* profiles have been created for several roles
C27_Witness ==
  /\ "createInstanceProfiles" \in iamOut.called
  /\ Len(iamOut.roles) = MaxQuantity
  /\ Len(iamOut.profiles) = MaxQuantity

\* C28: two different fragment names never give the same file path, nor,
\* where the resource name is built from the path, the same resource name.
C28_NameToPathInjective ==
  results.step # "idle" =>
    \A n \in Names \ {args.name} :
      /\ FilePath(publisher, Join(n)) # results.path
      /\ publisher \in {"chain", "upload"} =>
           \A rnd \in randomStrings :
             FileResourceName(publisher, n, rnd) # results.names.file

\* a file whose name holds a "/" has been committed by uploadValueFile
C28_Witness ==
  /\ results.step = "issued"
  /\ publisher = "upload"
  /\ Len(args.name) = MaxSegments

\* C29: createIRSARole creates one policy attachment per entry of
\* awsPolicies, named by the index of the entry, and the custom inline policy
\* if and only if customPolicies is not empty, with one statement per custom
\* policy in the order of the input.
C29_IrsaPolicies ==
  "createIRSARole" \in iamOut.called =>
    LET made == iamOut.irsa[1]
    IN  /\ Len(made.attachments) = Len(iamArgs.awsPolicies)
        /\ \A k \in 1..Len(made.attachments) :
             /\ made.attachments[k].name
                  = "policy-" \o iamArgs.service \o "-attachment-" \o ToString(k - 1)
             /\ made.attachments[k].policyArn = iamArgs.awsPolicies[k]
        /\ Len(made.custom) = IF iamArgs.customPolicies = <<>> THEN 0 ELSE 1
        /\ \A c \in Range(made.custom) :
             /\ Len(c.Statement) = Len(iamArgs.customPolicies)
             /\ \A k \in 1..Len(c.Statement) :
                  /\ c.Statement[k].Action = iamArgs.customPolicies[k].actions
                  /\ c.Statement[k].Resource = iamArgs.customPolicies[k].resources

\* createIRSARole has been called with several policies of both kinds
C29_Witness ==
  /\ "createIRSARole" \in iamOut.called
  /\ Len(iamArgs.awsPolicies) = MaxPolicies
  /\ Len(iamArgs.customPolicies) = MaxPolicies
  /\ iamArgs.customPolicies[1] # iamArgs.customPolicies[2]
====
